---- MODULE Spec2Model ----
(***************************************************************************)
(* Model of package goemail (src/email.go): the Message builder with its   *)
(* Body() serialisation, the SMTP configuration built by NewSMTP, and the  *)
(* submission sequence of SMTP.Send.                                       *)
(*                                                                         *)
(* A Go string or []byte is a sequence of atoms.  Every literal the code   *)
(* writes is split into atoms ("From: ", "\n", "--", the boundary, ...),   *)
(* caller supplied text is a sequence of one-character atoms, and an       *)
(* attachment is a sequence of bytes 0..255.  The calls Send makes into    *)
(* net, crypto/tls and net/smtp are steps whose outcome the environment    *)
(* chooses.                                                                *)
(***************************************************************************)
EXTENDS Integers, Sequences, FiniteSets, TLC

VARIABLES msg, bodyOut, bodyPrev, bodyCalls,
          s, newErr, lastURL, pc, recipients, rcptIdx, conn, ext, log, result

msgVars  == <<msg, bodyOut, bodyPrev, bodyCalls>>
cfgVars  == <<s, newErr, lastURL>>
callVars == <<pc, recipients, rcptIdx, conn, ext, log, result>>
sendVars == <<s, newErr, lastURL,
              pc, recipients, rcptIdx, conn, ext, log, result>>
vars     == <<msg, bodyOut, bodyPrev, bodyCalls,
              s, newErr, lastURL,
              pc, recipients, rcptIdx, conn, ext, log, result>>

(***************************************************************************)
(* Bounds and input sets                                                   *)
(***************************************************************************)
MaxRcpts == 3

MaxAttach == 2

Addrs == { <<"b@y.com">>, <<"c@z.com">> }

Froms == { <<"a@x.com">> }

Names == { <<"n">> }

Subjects == { <<"s">> }

Bodies == { <<"h", "i">>, <<"k", ":", "v", "\n", "\n", "i">> }

Dates == { <<"Tue, 03 Nov 2026 09:07:00 +0000">> }

AllFilenames == << <<"f1">>, <<"f2">>, <<"f3">> >>

Filenames == { AllFilenames[i] : i \in 1..MaxAttach }

Contents == { <<77, 97, 110, 33>> }

Nil == "nil"

(***************************************************************************)
(* Message                                                                 *)
(***************************************************************************)
newMessage(from, subject, body, contenttype, now) ==
  [ from            |-> from,
    name            |-> <<>>,
    to              |-> <<>>,
    cc              |-> <<>>,
    bcc             |-> <<>>,
    date            |-> now,
    subject         |-> subject,
    body            |-> body,
    bodyContentType |-> contenttype,
    attachments     |-> <<>> ]

NewMessage(from, subject, body, now) ==
  newMessage(from, subject, body, <<"text/plain">>, now)

NewHTMLMessage(from, subject, body, now) ==
  newMessage(from, subject, body, <<"text/html">>, now)

\* a Go map[string][]byte: a function from the set of its keys
MapSet(m, k, v) == [ x \in (DOMAIN m) \cup {k} |-> IF x = k THEN v ELSE m[x] ]

Recipients_mut(m) == m.to \o m.bcc \o m.cc

Recipients(m) == m.to \o m.cc \o m.bcc

RECURSIVE Join(_, _)
Join(elems, sep) ==
  IF Len(elems) = 0 THEN <<>>
  ELSE IF Len(elems) = 1 THEN elems[1]
  ELSE elems[1] \o sep \o Join(Tail(elems), sep)

(***************************************************************************)
(* encoding/base64 StdEncoding: three bytes to four characters, padded     *)
(***************************************************************************)
encodeStd ==
  << "A","B","C","D","E","F","G","H","I","J","K","L","M","N","O","P",
     "Q","R","S","T","U","V","W","X","Y","Z","a","b","c","d","e","f",
     "g","h","i","j","k","l","m","n","o","p","q","r","s","t","u","v",
     "w","x","y","z","0","1","2","3","4","5","6","7","8","9","+","/" >>

RECURSIVE StdEncode(_)
StdEncode(v) ==
  IF Len(v) = 0 THEN <<>>
  ELSE IF Len(v) = 1 THEN
    << encodeStd[(v[1] \div 4) + 1],
       encodeStd[((v[1] % 4) * 16) + 1], "=", "=" >>
  ELSE IF Len(v) = 2 THEN
    << encodeStd[(v[1] \div 4) + 1],
       encodeStd[((v[1] % 4) * 16 + (v[2] \div 16)) + 1],
       encodeStd[((v[2] % 16) * 4) + 1], "=" >>
  ELSE
    << encodeStd[(v[1] \div 4) + 1],
       encodeStd[((v[1] % 4) * 16 + (v[2] \div 16)) + 1],
       encodeStd[((v[2] % 16) * 4 + (v[3] \div 64)) + 1],
       encodeStd[(v[3] % 64) + 1] >>
    \o StdEncode(SubSeq(v, 4, Len(v)))

(***************************************************************************)
(* Message.Body                                                            *)
(***************************************************************************)
boundary == "mnwKuycHoXCwn9S5UY6avz8ZGJPEeUdMPS"

BodyHeaders_mut(m) ==
  <<"From: ", "\"">> \o m.name \o <<"\" <">> \o m.from \o <<">", "\n">>
  \o <<"Date: ">> \o m.date \o <<"\n">>
  \o <<"To: ">> \o Join(Recipients(m), <<",">>) \o <<"\n">>
  \o (IF Len(m.cc) > 0
        THEN <<"Cc: ">> \o Join(m.cc, <<",">>) \o <<"\n">>
        ELSE <<>>)
  \o <<"Subject: ">> \o m.subject \o <<"\n">>
  \o <<"MIME-Version: ", "1.0", "\n">>

BodyHeaders(m) ==
  <<"From: ", "\"">> \o m.name \o <<"\" <">> \o m.from \o <<">", "\n">>
  \o <<"Date: ">> \o m.date \o <<"\n">>
  \o <<"To: ">> \o Join(m.to, <<",">>) \o <<"\n">>
  \o (IF Len(m.cc) > 0
        THEN <<"Cc: ">> \o Join(m.cc, <<",">>) \o <<"\n">>
        ELSE <<>>)
  \o <<"Subject: ">> \o m.subject \o <<"\n">>
  \o <<"MIME-Version: ", "1.0", "\n">>

BodyMultipartOpen_mut(m) ==
  <<"Content-Type: ", "multipart/mixed; boundary=", boundary, "\n",
    "--", boundary, "\n">>

BodyMultipartOpen(m) ==
  IF Cardinality(DOMAIN m.attachments) > 0
    THEN <<"Content-Type: ", "multipart/mixed; boundary=", boundary, "\n",
           "--", boundary, "\n">>
    ELSE <<>>

BodyText(m) ==
  <<"Content-Type: ">> \o m.bodyContentType \o <<"; charset=utf-8", "\n">>
  \o m.body

BodyAttachment(k, v) ==
  <<"\n", "\n", "--", boundary, "\n">>
  \o <<"Content-Type: ", "application/octet-stream", "\n">>
  \o <<"Content-Transfer-Encoding: ", "base64", "\n">>
  \o <<"Content-Disposition: ", "attachment; filename=\"">> \o k
  \o <<"\"", "\n", "\n">>
  \o StdEncode(v)
  \o <<"\n", "--", boundary>>

\* the range loop over m.attachments, visiting the keys in the order `order`
RECURSIVE BodyAttachments(_, _)
BodyAttachments(m, order) ==
  IF Len(order) = 0 THEN <<>>
  ELSE BodyAttachment(order[1], m.attachments[order[1]])
       \o BodyAttachments(m, Tail(order))

\* the delimiter after an attachment left out of all but the last
RECURSIVE BodyAttachmentsOnce(_, _)
BodyAttachmentsOnce(m, order) ==
  IF Len(order) = 0 THEN <<>>
  ELSE LET part == BodyAttachment(order[1], m.attachments[order[1]])
       IN  (IF Len(order) = 1 THEN part
            ELSE SubSeq(part, 1, Len(part) - 3))
           \o BodyAttachmentsOnce(m, Tail(order))

BodyMultipartClose_mut(m, order) ==
  IF Cardinality(DOMAIN m.attachments) > 0
    THEN BodyAttachmentsOnce(m, order) \o <<"--">>
    ELSE <<>>

BodyMultipartClose(m, order) ==
  IF Cardinality(DOMAIN m.attachments) > 0
    THEN BodyAttachments(m, order) \o <<"--">>
    ELSE <<>>

Body(m, order) ==
  BodyHeaders(m) \o BodyMultipartOpen(m) \o BodyText(m)
  \o BodyMultipartClose(m, order)

\* the orders in which a range over a Go map with key set S may visit it
RangeOrders(S) ==
  { o \in [1..Cardinality(S) -> S] :
      \A i, j \in 1..Cardinality(S) : i # j => o[i] # o[j] }

(***************************************************************************)
(* Initial state: a message fresh from NewMessage or NewHTMLMessage, no    *)
(* SMTP configuration yet, no Send in progress.                            *)
(***************************************************************************)
NoConn == [open |-> FALSE, tls |-> FALSE, dials |-> 0]

Init ==
  /\ \E from \in Froms, subject \in Subjects, body \in Bodies, now \in Dates :
       msg \in { NewMessage(from, subject, body, now),
                 NewHTMLMessage(from, subject, body, now) }
  /\ bodyOut = <<>>
  /\ bodyPrev = <<>>
  /\ bodyCalls = 0
  /\ s = <<>>
  /\ newErr = Nil
  /\ lastURL = <<>>
  /\ pc = "idle"
  /\ recipients = <<>>
  /\ rcptIdx = 0
  /\ conn = NoConn
  /\ ext = FALSE
  /\ log = <<>>
  /\ result = Nil

(***************************************************************************)
(* Message operations.  The caller is single threaded: it mutates the      *)
(* message only between calls of Send.  bodyOut, bodyPrev and bodyCalls    *)
(* record the results of the calls of Body() since the last mutation.      *)
(***************************************************************************)
Mutated(m) ==
  /\ msg' = m
  /\ bodyOut' = <<>>
  /\ bodyPrev' = <<>>
  /\ bodyCalls' = 0
  /\ UNCHANGED sendVars

AddTo ==
  /\ pc = "idle"
  /\ Len(Recipients(msg)) < MaxRcpts
  /\ \E emailAddr \in Addrs :
       Mutated([msg EXCEPT !.to = Append(msg.to, emailAddr)])

AddCC ==
  /\ pc = "idle"
  /\ Len(Recipients(msg)) < MaxRcpts
  /\ \E emailAddr \in Addrs :
       Mutated([msg EXCEPT !.cc = Append(msg.cc, emailAddr)])

AddBCC ==
  /\ pc = "idle"
  /\ Len(Recipients(msg)) < MaxRcpts
  /\ \E emailAddr \in Addrs :
       Mutated([msg EXCEPT !.bcc = Append(msg.bcc, emailAddr)])

SetName ==
  /\ pc = "idle"
  /\ \E name \in Names :
       Mutated([msg EXCEPT !.name = name])

AddAttachment ==
  /\ pc = "idle"
  /\ \E filename \in Filenames, attachment \in Contents :
       Mutated([msg EXCEPT
                  !.attachments = MapSet(msg.attachments, filename, attachment)])

\* ioutil.ReadFile either fails, and the message is left alone, or yields
\* the bytes of the file
AddAttachmentFromFile ==
  /\ pc = "idle"
  /\ \E filename \in Filenames, readOk \in BOOLEAN, a \in Contents :
       IF readOk
         THEN Mutated([msg EXCEPT
                         !.attachments = MapSet(msg.attachments, filename, a)])
         ELSE UNCHANGED vars

CallBody ==
  /\ pc = "idle"
  /\ bodyCalls < 2
  /\ \E order \in RangeOrders(DOMAIN msg.attachments) :
       /\ bodyOut' = Body(msg, order)
       /\ bodyPrev' = bodyOut
       /\ bodyCalls' = bodyCalls + 1
  /\ UNCHANGED <<msg, sendVars>>

NextMsg ==
  \/ AddTo
  \/ AddCC
  \/ AddBCC
  \/ SetName
  \/ AddAttachment
  \/ AddAttachmentFromFile
  \/ CallBody

SpecMsg == Init /\ [][NextMsg]_vars

(***************************************************************************)
(* NewSMTP.  url.Parse, os.Hostname and net.SplitHostPort belong to the Go *)
(* library: a raw URL is given with the result url.Parse has for it.  A    *)
(* pointer (to SMTP, smtp.Auth or url.Userinfo) is the empty sequence when *)
(* nil and a sequence of the one value it points to otherwise.             *)
(***************************************************************************)
ErrInvalidScheme == "invalid scheme"

ErrNoRecipients == "no recipients specified"

URLs ==
  { [raw |-> "smtp://host", err |-> Nil,
     Scheme |-> "smtp", User |-> <<>>, Host |-> <<"host">>],
    [raw |-> "smtp://host:", err |-> Nil,
     Scheme |-> "smtp", User |-> <<>>, Host |-> <<"host", ":">>],
    [raw |-> "smtp://user:pw@host:587", err |-> Nil,
     Scheme |-> "smtp", User |-> <<[username |-> "user", password |-> "pw"]>>,
     Host |-> <<"host", ":", "587">>],
    [raw |-> "smtps://host:465", err |-> Nil,
     Scheme |-> "smtps", User |-> <<>>, Host |-> <<"host", ":", "465">>],
    [raw |-> "smtps://user:pw@host:465", err |-> Nil,
     Scheme |-> "smtps", User |-> <<[username |-> "user", password |-> "pw"]>>,
     Host |-> <<"host", ":", "465">>],
    [raw |-> "ftp://host", err |-> Nil,
     Scheme |-> "ftp", User |-> <<>>, Host |-> <<"host">>],
    [raw |-> "host", err |-> Nil,
     Scheme |-> "", User |-> <<>>, Host |-> <<>>],
    [raw |-> "smtp://ho st", err |-> "err:parse",
     Scheme |-> "", User |-> <<>>, Host |-> <<>>] }

Hostnames == { "client.local" }

\* net.SplitHostPort fails when the address has no colon ("missing port")
SplitHostPortErr(hostport) == ~ \E i \in DOMAIN hostport : hostport[i] = ":"

ServerOf(host) ==
  IF SplitHostPortErr(host) THEN host \o <<":", "25">> ELSE host

PlainAuth(identity, username, password, host) ==
  [identity |-> identity, username |-> username,
   password |-> password, host |-> host]

AuthOf_mut(user, server) == <<>>

AuthOf(user, server) ==
  IF user # <<>>
    THEN << PlainAuth("", user[1].username, user[1].password, server) >>
    ELSE <<>>

\* the check of line 173
InvalidScheme_mut(scheme) == scheme # "smtp"

InvalidScheme(scheme) == scheme # "smtp" /\ scheme # "smtps"

\* s and newErr are the two values of the last call of NewSMTP, and lastURL
\* what url.Parse made of its argument
NewSMTP ==
  /\ pc = "idle"
  /\ \E url \in URLs, hostname \in Hostnames, hostnameOk \in BOOLEAN :
       /\ lastURL' = <<url>>
       /\ IF url.err # Nil
            THEN s' = <<>> /\ newErr' = url.err
          ELSE IF InvalidScheme(url.Scheme)
            THEN s' = <<>> /\ newErr' = ErrInvalidScheme
          ELSE IF ~hostnameOk
            THEN s' = <<>> /\ newErr' = "err:hostname"
          ELSE /\ s' = << [ scheme   |-> url.Scheme,
                            server   |-> ServerOf(url.Host),
                            auth     |-> AuthOf(url.User, ServerOf(url.Host)),
                            hostname |-> hostname ] >>
               /\ newErr' = Nil
  /\ UNCHANGED <<msgVars, callVars>>

(***************************************************************************)
(* SMTP.Send.  pc is the position of the call; every call into the library *)
(* is one step, which the server or the network lets succeed or fail.  log *)
(* records the library calls made by this call of Send, with their         *)
(* outcome; result is the value Send returns ("none" until it returns,     *)
(* "ok" for a nil error).                                                  *)
(***************************************************************************)
Err(op) == "err:" \o op

Entry(op, arg, ok) == [op |-> op, arg |-> arg, ok |-> ok]

\* the check of line 213
NoRecipients_mut(rcpts) == Len(rcpts) <= 1

NoRecipients(rcpts) == Len(rcpts) < 1

\* the condition under which lines 241-250 call client.StartTLS
WantStartTLS_mut(scheme, hasStartTLS) == hasStartTLS

WantStartTLS(scheme, hasStartTLS) == scheme # "smtps" /\ hasStartTLS

\* the loop of lines 266-270 is left on the first rejected recipient
RcptAborts_mut(ok) == FALSE

RcptAborts(ok) == ~ok

\* line 285: the error of client.Quit is the result of Send
QuitResult_mut(ok) == "ok"

QuitResult(ok) == IF ok THEN "ok" ELSE Err("quit")

\* a step that returns its error at once, and carries on otherwise
Step_mut(op, arg, ok, next) ==
  /\ log' = Append(log, Entry(op, arg, ok))
  /\ pc' = next
  /\ result' = result

Step(op, arg, ok, next) ==
  /\ log' = Append(log, Entry(op, arg, ok))
  /\ IF ok
       THEN pc' = next /\ result' = result
       ELSE pc' = "done" /\ result' = Err(op)

SendBegin_mut ==
  /\ pc = "idle"
  /\ s # <<>>
  /\ recipients' = Recipients(msg)
  /\ msg' = [msg EXCEPT !.to = Recipients(msg), !.cc = <<>>, !.bcc = <<>>]
  /\ IF NoRecipients(Recipients(msg))
       THEN pc' = "done" /\ result' = ErrNoRecipients
       ELSE pc' = "dial" /\ result' = "none"
  /\ rcptIdx' = 0
  /\ conn' = NoConn
  /\ ext' = FALSE
  /\ log' = <<>>
  /\ UNCHANGED <<bodyOut, bodyPrev, bodyCalls, cfgVars>>

SendBegin ==
  /\ pc = "idle"
  /\ s # <<>>
  /\ recipients' = Recipients(msg)
  /\ IF NoRecipients(Recipients(msg))
       THEN pc' = "done" /\ result' = ErrNoRecipients
       ELSE pc' = "dial" /\ result' = "none"
  /\ rcptIdx' = 0
  /\ conn' = NoConn
  /\ ext' = FALSE
  /\ log' = <<>>
  /\ UNCHANGED <<msgVars, cfgVars>>

\* lines 217-228: tls.Dial for smtps, net.Dial otherwise
SendDial ==
  /\ pc = "dial"
  /\ \E ok \in BOOLEAN :
       /\ Step("dial", IF s[1].scheme = "smtps" THEN "tls" ELSE "tcp", ok, "newclient")
       /\ conn' = [open  |-> ok,
                   tls   |-> ok /\ s[1].scheme = "smtps",
                   dials |-> conn.dials + 1]
  /\ UNCHANGED <<msgVars, cfgVars, recipients, rcptIdx, ext>>

\* lines 230-233; smtp.NewClient closes the connection when it fails
SendNewClient ==
  /\ pc = "newclient"
  /\ \E ok \in BOOLEAN :
       /\ Step("newclient", "", ok, "hello")
       /\ conn' = [conn EXCEPT !.open = ok]
  /\ UNCHANGED <<msgVars, cfgVars, recipients, rcptIdx, ext>>

\* lines 236-238; the reply to EHLO tells whether STARTTLS is advertised
SendHello ==
  /\ pc = "hello"
  /\ \E ok \in BOOLEAN, advertised \in BOOLEAN :
       /\ Step("hello", s[1].hostname, ok, "starttls")
       /\ ext' = (ok /\ advertised)
  /\ UNCHANGED <<msgVars, cfgVars, recipients, rcptIdx, conn>>

\* lines 241-251
SendStartTLS ==
  /\ pc = "starttls"
  /\ IF WantStartTLS(s[1].scheme, ext)
       THEN \E ok \in BOOLEAN :
              /\ Step("starttls", "", ok, "auth")
              /\ conn' = [conn EXCEPT !.tls = ok]
       ELSE /\ pc' = "auth"
            /\ UNCHANGED <<log, result, conn>>
  /\ UNCHANGED <<msgVars, cfgVars, recipients, rcptIdx, ext>>

\* lines 254-258; when the exchange fails, Client.Auth itself sends QUIT,
\* which closes the connection if the server answers it
SendAuth ==
  /\ pc = "auth"
  /\ IF s[1].auth # <<>>
       THEN \E ok \in BOOLEAN, closed \in BOOLEAN :
              /\ Step("auth", s[1].auth[1].username, ok, "mail")
              /\ conn' = [conn EXCEPT !.open = ok \/ ~closed]
       ELSE /\ pc' = "mail"
            /\ UNCHANGED <<log, result, conn>>
  /\ UNCHANGED <<msgVars, cfgVars, recipients, rcptIdx, ext>>

\* lines 261-263
SendMail ==
  /\ pc = "mail"
  /\ \E ok \in BOOLEAN : Step("mail", msg.from, ok, "rcpt")
  /\ UNCHANGED <<msgVars, cfgVars, recipients, rcptIdx, conn, ext>>

\* lines 266-270: one iteration of the loop over msg.Recipients()
SendRcpt ==
  /\ pc = "rcpt"
  /\ rcptIdx < Len(Recipients(msg))
  /\ \E ok \in BOOLEAN :
       /\ log' = Append(log, Entry("rcpt", Recipients(msg)[rcptIdx + 1], ok))
       /\ rcptIdx' = rcptIdx + 1
       /\ IF RcptAborts(ok)
            THEN pc' = "done" /\ result' = Err("rcpt")
            ELSE /\ pc' = IF rcptIdx + 1 < Len(Recipients(msg))
                            THEN "rcpt" ELSE "data"
                 /\ result' = result
  /\ UNCHANGED <<msgVars, cfgVars, recipients, conn, ext>>

\* lines 273-276
SendData ==
  /\ pc = "data"
  /\ \E ok \in BOOLEAN : Step("data", "", ok, "write")
  /\ UNCHANGED <<msgVars, cfgVars, recipients, rcptIdx, conn, ext>>

\* lines 278-281: the payload is msg.Body()
SendWrite ==
  /\ pc = "write"
  /\ \E ok \in BOOLEAN, order \in RangeOrders(DOMAIN msg.attachments) :
       Step("write", Body(msg, order), ok, "close")
  /\ UNCHANGED <<msgVars, cfgVars, recipients, rcptIdx, conn, ext>>

\* line 283: the error of dataBuf.Close() is discarded
SendClose ==
  /\ pc = "close"
  /\ \E ok \in BOOLEAN :
       /\ log' = Append(log, Entry("close", "", ok))
       /\ pc' = "quit"
       /\ result' = result
  /\ UNCHANGED <<msgVars, cfgVars, recipients, rcptIdx, conn, ext>>

\* line 285; Client.Quit closes the connection once the server answered
SendQuit ==
  /\ pc = "quit"
  /\ \E ok \in BOOLEAN :
       /\ log' = Append(log, Entry("quit", "", ok))
       /\ pc' = "done"
       /\ result' = QuitResult(ok)
       /\ conn' = [conn EXCEPT !.open = ~ok]
  /\ UNCHANGED <<msgVars, cfgVars, recipients, rcptIdx, ext>>

\* the caller has the result; the locals of the call are gone
SendReturn ==
  /\ pc = "done"
  /\ pc' = "idle"
  /\ recipients' = <<>>
  /\ rcptIdx' = 0
  /\ conn' = NoConn
  /\ ext' = FALSE
  /\ log' = <<>>
  /\ result' = Nil
  /\ UNCHANGED <<msgVars, cfgVars>>

NextSend ==
  \/ NewSMTP
  \/ AddTo
  \/ AddCC
  \/ AddBCC
  \/ SendBegin
  \/ SendDial
  \/ SendNewClient
  \/ SendHello
  \/ SendStartTLS
  \/ SendAuth
  \/ SendMail
  \/ SendRcpt
  \/ SendData
  \/ SendWrite
  \/ SendClose
  \/ SendQuit
  \/ SendReturn

SpecSend == Init /\ [][NextSend]_vars

Next == NextMsg \/ NextSend

Spec == Init /\ [][Next]_vars

(***************************************************************************)
(* Observations on the output of Body()                                    *)
(***************************************************************************)
Count(tok, out) == Cardinality({ i \in DOMAIN out : out[i] = tok })

NumAttachments == Cardinality(DOMAIN msg.attachments)

\* lines `--boundary` and the marker `--boundary--`
DelimiterLines(out) ==
  Cardinality({ i \in 1..(Len(out) - 2) :
                  out[i] = "--" /\ out[i+1] = boundary /\ out[i+2] = "\n" })

ClosingMarkers(out) ==
  Cardinality({ i \in 1..(Len(out) - 2) :
                  out[i] = "--" /\ out[i+1] = boundary /\ out[i+2] = "--" })

\* A mail-message parser in the manner of net/mail.ReadMessage: the header
\* block ends at the first empty line, every header line is `key: value`,
\* and what follows the empty line is the body.
HeaderEnd(out) ==
  LET E == { i \in DOMAIN out : out[i] = "\n" /\ (i = 1 \/ out[i-1] = "\n") }
  IN  IF E = {} THEN 0 ELSE CHOOSE i \in E : \A j \in E : i <= j

LineEnd(out, i) == CHOOSE j \in i..Len(out) : out[j] = "\n" /\ \A k \in i..(j-1) : out[k] # "\n"

HeaderLines(out) ==
  { SubSeq(out, i, LineEnd(out, i) - 1) :
      i \in { k \in 1..(HeaderEnd(out) - 1) : k = 1 \/ out[k-1] = "\n" } }

KeyAtoms == { "From: ", "Date: ", "To: ", "Cc: ", "Subject: ", "MIME-Version: ",
              "Content-Type: ", "Content-Transfer-Encoding: ",
              "Content-Disposition: " }

IsHeaderLine(line) ==
  \E i \in DOMAIN line :
     /\ line[i] \in KeyAtoms \cup {":"}
     /\ i > 1 \/ line[i] \in KeyAtoms

ParseOk(out) ==
  /\ HeaderEnd(out) # 0
  /\ \A line \in HeaderLines(out) : IsHeaderLine(line)

HeaderGet(out, key) ==
  LET L == { line \in HeaderLines(out) : Len(line) > 0 /\ line[1] = key }
  IN  IF L = {} THEN <<>> ELSE Tail(CHOOSE line \in L : TRUE)

ParsedBody(out) == SubSeq(out, HeaderEnd(out) + 1, Len(out))

\* C7: two calls of Body() with no mutation of the Message in between
\* return identical bytes, whatever the number of attachments.
C7_BodyIdempotent == bodyCalls = 2 => bodyOut = bodyPrev

C9_NoAttachmentsSingleContentType ==
  (bodyCalls >= 1 /\ NumAttachments = 0)
    => /\ Count(boundary, bodyOut) = 0
       /\ Count("multipart/mixed; boundary=", bodyOut) = 0
       /\ Count("Content-Type: ", bodyOut) = 1
       /\ \A i \in DOMAIN bodyOut :
            bodyOut[i] = "Content-Type: "
              => SubSeq(bodyOut, i + 1, i + 3)
                   = msg.bodyContentType \o <<"; charset=utf-8", "\n">>

C9_Witness ==
  /\ bodyCalls >= 1
  /\ NumAttachments = 0
  /\ Len(msg.to) = 1
  /\ Len(msg.cc) = 1

\* C10: for a plain-text Message with no attachments and one To recipient,
\* a mail-message parser reads the output of Body() without error, reports
\* the To header equal to the recipient and returns the body text unchanged.
C10_BodyParses ==
  ( /\ bodyCalls >= 1
    /\ NumAttachments = 0
    /\ msg.bodyContentType = <<"text/plain">>
    /\ Len(msg.to) = 1 )
    => /\ ParseOk(bodyOut)
       /\ HeaderGet(bodyOut, "To: ") = msg.to[1]
       /\ ParsedBody(bodyOut) = msg.body

(***************************************************************************)
(* Observations on a call of Send                                          *)
(***************************************************************************)
InCall == pc # "idle"

HasOp(op) == \E i \in DOMAIN log : log[i].op = op

Succeeded(op) == \E i \in DOMAIN log : log[i].op = op /\ log[i].ok

Last == log[Len(log)]

RcptEntries == { i \in DOMAIN log : log[i].op = "rcpt" }

FirstFailure ==
  CHOOSE i \in DOMAIN log : ~log[i].ok /\ \A j \in 1..(i-1) : log[j].ok

AfterUpgrade ==
  \/ pc \in {"auth", "mail", "rcpt", "data", "write", "close", "quit"}
  \/ pc = "done" /\ (HasOp("starttls") \/ HasOp("auth") \/ HasOp("mail"))

\* C1: when the server rejects a recipient, Send returns an error, declares
\* no recipient after it and never opens the data phase nor writes the
\* message: the rejected declaration is the last thing the call does.
C1_RcptRejectAborts ==
  \A i \in DOMAIN log :
     (log[i].op = "rcpt" /\ ~log[i].ok)
       => /\ i = Len(log)
          /\ pc = "done"
          /\ result = Err("rcpt")
          /\ Cardinality(RcptEntries) = rcptIdx
          /\ log[i].arg = (msg.to \o msg.cc \o msg.bcc)[rcptIdx]
          /\ ~HasOp("data") /\ ~HasOp("write")

C1_Witness ==
  /\ pc = "done"
  /\ Len(msg.to) + Len(msg.cc) + Len(msg.bcc) = 3
  /\ rcptIdx = 2
  /\ ~Last.ok /\ Last.op = "rcpt"

\* C2: Send returns success only if every step it made succeeded, and when
\* a step failed it returns the failure of the first step that failed.
C2_NoErrorSuppressed ==
  pc = "done"
    => /\ result = "ok" => \A i \in DOMAIN log : log[i].ok
       /\ (\E i \in DOMAIN log : ~log[i].ok)
            => result = Err(log[FirstFailure].op)

\* C3: a call of Send that opened a connection has closed it when it
\* returns.
C3_ConnClosedOnReturn ==
  (pc = "done" /\ Succeeded("dial")) => ~conn.open

\* C4: with to, cc and bcc all empty Send returns ErrNoRecipients and
\* dials nothing; with one of them non-empty the check passes.
C4_NoRecipientsNoConnect ==
  InCall =>
    IF Len(msg.to) + Len(msg.cc) + Len(msg.bcc) = 0
      THEN /\ pc = "done"
           /\ result = ErrNoRecipients
           /\ log = <<>>
           /\ conn.dials = 0
      ELSE result # ErrNoRecipients

C4_Witness ==
  /\ pc = "done"
  /\ result = ErrNoRecipients
  /\ msg.to = <<>> /\ msg.cc = <<>> /\ msg.bcc = <<>>
  /\ conn.dials = 0

\* C5: the STARTTLS upgrade is made exactly when the scheme is "smtp" and
\* the server advertised it in its greeting reply; with "smtp" and no
\* advertisement Send goes on in plaintext and the step fails nothing; with
\* "smtps" the connection is dialled with TLS and no upgrade is attempted.
C5_OpportunisticUpgrade ==
  InCall =>
    /\ HasOp("starttls") => (s[1].scheme = "smtp" /\ ext)
    /\ AfterUpgrade => (HasOp("starttls") <=> (s[1].scheme = "smtp" /\ ext))
    /\ (AfterUpgrade /\ s[1].scheme = "smtp" /\ ~ext)
         => /\ ~conn.tls
            /\ result # Err("starttls")
            /\ pc = "auth" => result = "none"
    /\ s[1].scheme = "smtps"
         => /\ ~HasOp("starttls")
            /\ \A i \in DOMAIN log : log[i].op = "dial" => log[i].arg = "tls"
            /\ Succeeded("dial") => conn.tls
    /\ s[1].scheme = "smtp"
         => \A i \in DOMAIN log : log[i].op = "dial" => log[i].arg = "tcp"

C5_Witness ==
  /\ pc = "done"
  /\ result = "ok"
  /\ s[1].scheme = "smtp"
  /\ ~ext
  /\ ~HasOp("starttls")
  /\ ~conn.tls
  /\ Succeeded("quit")

\* C6: when Quit fails after the payload was transferred, Send returns the
\* failure of Quit; Send returns success only when Quit succeeded.
C6_QuitFailureReturned ==
  pc = "done"
    => /\ result = "ok" => (log # <<>> /\ Last.op = "quit" /\ Last.ok)
       /\ (log # <<>> /\ Last.op = "quit" /\ ~Last.ok) => result = Err("quit")

C6_Witness ==
  /\ pc = "done"
  /\ Succeeded("write")
  /\ Succeeded("close")
  /\ HasOp("quit") /\ ~Succeeded("quit")
  /\ result = Err("quit")

(***************************************************************************)
(* Observations on NewSMTP                                                 *)
(***************************************************************************)
Called == lastURL # <<>>

\* the host and the port of the authority of a URL, as url.Hostname() and
\* url.Port() give them
URLHostname(host) ==
  IF SplitHostPortErr(host) THEN host
  ELSE SubSeq(host, 1, (CHOOSE i \in DOMAIN host :
                          host[i] = ":" /\ \A j \in 1..(i-1) : host[j] # ":") - 1)

URLPort(host) == SubSeq(host, Len(URLHostname(host)) + 2, Len(host))

\* C11: NewSMTP returns ErrInvalidScheme and no configuration for every
\* parseable URI whose scheme is neither "smtp" nor "smtps", never returns
\* ErrInvalidScheme for "smtp" or "smtps", and a configuration it returns
\* has one of these two schemes.
C11_InvalidScheme ==
  Called =>
    /\ (lastURL[1].err = Nil /\ lastURL[1].Scheme \notin {"smtp", "smtps"})
         => (newErr = ErrInvalidScheme /\ s = <<>>)
    /\ lastURL[1].Scheme \in {"smtp", "smtps"} => newErr # ErrInvalidScheme
    /\ s # <<>> => (s[1].scheme \in {"smtp", "smtps"}
                    /\ s[1].scheme = lastURL[1].Scheme)

C11_Witness ==
  /\ Called
  /\ lastURL[1].raw = "ftp://host"
  /\ newErr = ErrInvalidScheme
  /\ s = <<>>

\* C12: the server of a configuration is host:port; host:25 when the URI
\* gives no port, also when it gives a colon and an empty port, and the
\* given host:port otherwise.
C12_ServerHostPort ==
  s # <<>> =>
    s[1].server = URLHostname(lastURL[1].Host) \o <<":">>
                  \o (IF URLPort(lastURL[1].Host) = <<>>
                        THEN <<"25">>
                        ELSE URLPort(lastURL[1].Host))

(***************************************************************************)
(* Observations on the order of the steps of Send                          *)
(***************************************************************************)
ToCcBcc == msg.to \o msg.cc \o msg.bcc

\* the steps of a call in which none fails, for the configuration, the
\* message and the server's advertisement of this call
ExpectedOps ==
  <<"dial", "newclient", "hello">>
  \o (IF s[1].scheme = "smtp" /\ ext THEN <<"starttls">> ELSE <<>>)
  \o (IF s[1].auth # <<>> THEN <<"auth">> ELSE <<>>)
  \o <<"mail">>
  \o [i \in 1..Len(ToCcBcc) |-> "rcpt"]
  \o <<"data", "write", "close", "quit">>

StepsArePrefix ==
  /\ Len(log) <= Len(ExpectedOps)
  /\ \A i \in DOMAIN log : log[i].op = ExpectedOps[i]

IndexOf(op) == CHOOSE i \in DOMAIN log : log[i].op = op

\* C13: the steps a call of Send has executed are a prefix of the fixed
\* order; no step starts before all earlier steps succeeded, at most one
\* connection is opened and no step is executed twice.
C13_StepsInOrder ==
  InCall =>
    /\ StepsArePrefix
    /\ \A i \in 1..(Len(log) - 1) : log[i].ok
    /\ conn.dials <= 1
    /\ \A i, j \in DOMAIN log :
         (i # j /\ log[i].op = log[j].op) => log[i].op = "rcpt"
    /\ Cardinality(RcptEntries) = rcptIdx

\* C14: Recipients() is to, then cc, then bcc, with every duplicate, and a
\* call of Send in which no step fails declares exactly these recipients,
\* once each and in this order, between the envelope sender and the
\* opening of the data phase.
C14_RecipientsInOrder ==
  InCall =>
    /\ recipients = msg.to \o msg.cc \o msg.bcc
    /\ (pc = "done" /\ log # <<>> /\ \A i \in DOMAIN log : log[i].ok)
         => /\ HasOp("mail") /\ HasOp("data")
            /\ IndexOf("data") - IndexOf("mail") - 1 = Len(ToCcBcc)
            /\ Cardinality(RcptEntries) = Len(ToCcBcc)
            /\ \A k \in 1..Len(ToCcBcc) :
                 log[IndexOf("mail") + k] = Entry("rcpt", ToCcBcc[k], TRUE)

C14_Witness ==
  /\ pc = "done"
  /\ result = "ok"
  /\ \A i \in DOMAIN log : log[i].ok
  /\ Len(msg.to) = 1 /\ Len(msg.cc) = 1 /\ Len(msg.bcc) = 1
  /\ msg.to[1] = msg.bcc[1]
  /\ msg.to[1] # msg.cc[1]

AfterAuth ==
  \/ pc \in {"mail", "rcpt", "data", "write", "close", "quit"}
  \/ pc = "done" /\ (HasOp("auth") \/ HasOp("mail"))

\* C15: NewSMTP binds an authentication mechanism exactly when the URI has
\* user information; Send makes the authentication exchange exactly when a
\* mechanism is bound; when the exchange fails Send returns that failure
\* and executes neither the envelope sender nor any later step.
C15_AuthIffBound ==
  /\ s # <<>> => (s[1].auth # <<>> <=> lastURL[1].User # <<>>)
  /\ InCall =>
       /\ HasOp("auth") => s[1].auth # <<>>
       /\ AfterAuth => (HasOp("auth") <=> s[1].auth # <<>>)
       /\ \A i \in DOMAIN log :
            (log[i].op = "auth" /\ ~log[i].ok)
              => /\ i = Len(log)
                 /\ pc = "done"
                 /\ result = Err("auth")
                 /\ ~HasOp("mail") /\ ~HasOp("rcpt") /\ ~HasOp("data")

C15_Witness ==
  /\ pc = "done"
  /\ lastURL[1].User # <<>>
  /\ s[1].auth # <<>>
  /\ HasOp("auth") /\ ~Succeeded("auth")
  /\ result = Err("auth")

HeaderValue(out, i) == SubSeq(out, i + 1, LineEnd(out, i) - 1)

\* the value of an address header lists exactly the addresses of `list`
ListsExactly(value, list) ==
  /\ Len(value) = IF Len(list) = 0 THEN 0 ELSE 2 * Len(list) - 1
  /\ \A k \in DOMAIN list : <<value[2 * k - 1]>> = list[k]
  /\ \A k \in 1..(Len(list) - 1) : value[2 * k] = ","

OnlyBcc(addr) ==
  /\ \A k \in DOMAIN msg.to : msg.to[k] # addr
  /\ \A k \in DOMAIN msg.cc : msg.cc[k] # addr

AfterRcpts ==
  \/ pc \in {"data", "write", "close", "quit"}
  \/ pc = "done" /\ HasOp("data")

\* the outputs of Body() at hand: of the last direct call, and the payload
\* Send wrote
BodyOutputs ==
  (IF bodyCalls >= 1 THEN {bodyOut} ELSE {})
  \cup { log[i].arg : i \in { j \in DOMAIN log : log[j].op = "write" } }

\* C17: in the output of Body() the To header lists exactly the to list,
\* the Cc header exactly the cc list and only when it is not empty, there
\* is no Bcc header and an address added only through AddBCC occurs
\* nowhere; every bcc address is in Recipients() and is declared as an
\* envelope recipient by Send.
C17_BccNotInHeaders ==
  /\ \A out \in BodyOutputs :
       /\ Count("To: ", out) = 1
       /\ \A i \in DOMAIN out :
            out[i] = "To: " => ListsExactly(HeaderValue(out, i), msg.to)
       /\ Count("Cc: ", out) = IF Len(msg.cc) > 0 THEN 1 ELSE 0
       /\ \A i \in DOMAIN out :
            out[i] = "Cc: " => ListsExactly(HeaderValue(out, i), msg.cc)
       /\ Count("Bcc: ", out) = 0
       /\ \A k \in DOMAIN msg.bcc :
            OnlyBcc(msg.bcc[k]) => Count(msg.bcc[k][1], out) = 0
  /\ InCall =>
       \A k \in DOMAIN msg.bcc :
          /\ Len(recipients) = Len(msg.to) + Len(msg.cc) + Len(msg.bcc)
          /\ recipients[Len(msg.to) + Len(msg.cc) + k] = msg.bcc[k]
          /\ AfterRcpts =>
               \E i \in DOMAIN log : log[i] = Entry("rcpt", msg.bcc[k], TRUE)

C17_Witness ==
  /\ pc = "done"
  /\ Succeeded("write")
  /\ Len(msg.to) = 1 /\ Len(msg.cc) = 1 /\ Len(msg.bcc) = 1
  /\ OnlyBcc(msg.bcc[1])

\* C18: with scheme "smtp", credentials and a server that advertises
\* STARTTLS, the authentication exchange starts only after the upgrade
\* succeeded; when the upgrade fails Send returns that failure and the
\* exchange is never started.
C18_AuthAfterUpgrade ==
  (InCall /\ s[1].scheme = "smtp" /\ s[1].auth # <<>> /\ ext) =>
    /\ HasOp("auth")
         => /\ Succeeded("starttls")
            /\ IndexOf("starttls") < IndexOf("auth")
            /\ conn.tls
    /\ \A i \in DOMAIN log :
         (log[i].op = "starttls" /\ ~log[i].ok)
           => /\ i = Len(log)
              /\ pc = "done"
              /\ result = Err("starttls")
              /\ ~HasOp("auth")
              /\ ~conn.tls

C18_Witness ==
  /\ pc = "done"
  /\ s[1].scheme = "smtp"
  /\ s[1].auth # <<>>
  /\ ext
  /\ Succeeded("starttls")
  /\ HasOp("auth")

====
